---- MODULE Spec2Model ----
(***************************************************************************)
(* Model of novel-splitter/scripts/split_novel.py.                         *)
(*                                                                         *)
(* Text is a sequence of characters.  TLA+ strings are ASCII, so the CJK   *)
(* characters of the source are written by their pinyin names:             *)
(*   "di" = U+7B2C (ordinal prefix), "zhang" = U+7AE0 (chapter),           *)
(*   "juan" = U+5377 (volume), "ling" "yi" "er" "san" "si" "wu" "liu" "qi" *)
(*   "ba" "jiu" = the digits 0..9, "shi" = 10, "bai" = 100, "qian" = 1000, *)
(*   "wan" = 10^4, "yii" = 10^8.                                           *)
(* Offsets into text are 0-based as in Python; At(s, k) is s[k].           *)
(* Optional[int] is a sequence: None is <<>>, the integer n is <<n>>.      *)
(***************************************************************************)
EXTENDS Integers, Sequences, FiniteSets, TLC

VARIABLES
    pc,               \* position in the operation being run
    content,          \* split_chapters: the decoded document text
    custom_pattern,   \* split_chapters: the custom pattern argument, or NoPattern
    chapter_pattern,  \* the compiled pattern in use, or NoPattern
    pattern_desc,     \* description of the pattern in use
    chapter_matches,  \* list(chapter_pattern.finditer(content))
    i,                \* loop index of the two loops of split_chapters
    chapters,         \* the list of segment records
    safe_title,       \* the local safe_title of the last loop iteration
    files,            \* the output directory: filename -> written text
    created_files,    \* the list of paths written, in order
    result,           \* the value returned (or the error raised)
    text,             \* parse_chinese_number: its argument
    decodes,          \* detect_encoding: which encodings decode the file
    enc_i             \* detect_encoding: loop position in the candidate list

vars == << pc, content, custom_pattern, chapter_pattern, pattern_desc,
           chapter_matches, i, chapters, safe_title, files, created_files,
           result, text, decodes, enc_i >>

splitVars == << content, custom_pattern, chapter_pattern, pattern_desc,
                chapter_matches, i, chapters, safe_title, files,
                created_files >>
numVars == << text >>
encVars == << decodes, enc_i >>

-----------------------------------------------------------------------------
(* Bounds of the model *)

\* longest numeral string given to parse_chinese_number
MaxNumLen == 3
\* most lines in a document given to split_chapters
MaxLines == 3
\* most lines following the padding in a document given to detect_chapter_pattern
MaxDetLines == 2
\* largest intermediate value of a numeral given to parse_chinese_number
\* (Python integers are unbounded; TLC's integers are 32 bits wide)
NumLimit == 1000000000

-----------------------------------------------------------------------------
(* Characters and character classes *)

None == << >>
Some(n) == << n >>

Min(a, b) == IF a < b THEN a ELSE b

At(s, k) == s[k + 1]

\* Python slice s[a:b] for 0 <= a, b
Slice(s, a, b) == SubSeq(s, a + 1, Min(b, Len(s)))

\* the characters \s matches and str.strip() removes
Whitespace == { " ", "\t", "\n", "\r" }

\* the characters \d and [0-9] match
Digits == { "0", "1", "2", "3", "4", "5", "6", "7", "8", "9" }

\* the class [ling yi er san si wu liu qi ba jiu shi bai qian] of patterns 1 and 5
ChineseDigits == { "ling", "yi", "er", "san", "si", "wu", "liu", "qi", "ba",
                   "jiu", "shi", "bai", "qian" }

\* the dict chinese_to_arabic
chinese_to_arabic ==
    [ c \in ChineseDigits |->
        CASE c = "ling" -> 0 [] c = "yi" -> 1 [] c = "er" -> 2 [] c = "san" -> 3
          [] c = "si" -> 4 [] c = "wu" -> 5 [] c = "liu" -> 6 [] c = "qi" -> 7
          [] c = "ba" -> 8 [] c = "jiu" -> 9 [] c = "shi" -> 10
          [] c = "bai" -> 100 [] c = "qian" -> 1000 ]

-----------------------------------------------------------------------------
(* parse_chinese_number *)

\* one iteration of the for loop: st is the pair of locals [result, temp]
ParseStep(st, char) ==
    IF char \in DOMAIN chinese_to_arabic
    THEN LET value == chinese_to_arabic[char]
         IN  IF value >= 100
             THEN [ st EXCEPT !.temp = st.temp * value ]
             ELSE IF value >= 10
                  THEN [ st EXCEPT !.temp = IF st.temp # 0
                                            THEN st.temp * 10 + value
                                            ELSE value ]
                  ELSE [ st EXCEPT !.temp = st.temp + value ]
    ELSE IF char = "wan"
         THEN [ result |-> st.result + st.temp * 10000, temp |-> 0 ]
         ELSE IF char = "yii"
              THEN [ result |-> st.result + st.temp * 100000000, temp |-> 0 ]
              ELSE st

RECURSIVE ParseLoop(_, _, _)
ParseLoop(st, t, k) ==
    IF k > Len(t) THEN st ELSE ParseLoop(ParseStep(st, t[k]), t, k + 1)

\* a wrong final test: zero is returned instead of None
parse_chinese_number_ge(t) ==
    IF t = << >>
    THEN None
    ELSE LET st == ParseLoop([ result |-> 0, temp |-> 0 ], t, 1)
             total == st.result + st.temp
         IN  IF total >= 0 THEN Some(total) ELSE None

parse_chinese_number(t) ==
    IF t = << >>
    THEN None
    ELSE LET st == ParseLoop([ result |-> 0, temp |-> 0 ], t, 1)
             total == st.result + st.temp
         IN  IF total > 0 THEN Some(total) ELSE None

-----------------------------------------------------------------------------
(* Regular expressions.  A pattern is named by its number: 1..7 are the    *)
(* entries of DEFAULT_PATTERNS in order, 8 is the custom pattern of the    *)
(* command-line help, and NoPattern is None.  A match is a record          *)
(* [ok, start, end, groups]: groups is match.groups(), the texts of the    *)
(* capturing groups.  Every quantified class below is followed by a        *)
(* character outside the class, so the greedy run is the only candidate    *)
(* and backtracking never finds another match.                             *)

NoPattern == 0

\* DEFAULT_PATTERNS, by index
DEFAULT_PATTERNS == 1 .. 7

\* the pattern of the help text's example: -p "^di\d+zhang"
HelpPattern == 8

NoMatch == [ ok |-> FALSE, start |-> 0, end |-> 0, groups |-> << >> ]

\* the end of the longest run of characters of cls starting at offset p
RECURSIVE RunEnd(_, _, _)
RunEnd(s, p, cls) ==
    IF p < Len(s) /\ At(s, p) \in cls THEN RunEnd(s, p + 1, cls) ELSE p

\* whether s has the literal lit at offset p
HasLiteral(s, p, lit) ==
    /\ p + Len(lit) <= Len(s)
    /\ \A k \in 1 .. Len(lit) : s[p + k] = lit[k]

\* ^ : the start of the text, or with re.MULTILINE just after a line break
AtLineStart(s, p, multiline) ==
    \/ p = 0
    \/ multiline /\ s[p] = "\n"

\* $ : the end of the text or just before a final line break, or with
\* re.MULTILINE just before any line break
AtLineEnd(s, p, multiline) ==
    \/ p = Len(s)
    \/ p = Len(s) - 1 /\ At(s, p) = "\n"
    \/ multiline /\ p < Len(s) /\ At(s, p) = "\n"

\* ^di(cls+)[zhang juan] : patterns 1 (Chinese digits) and 2 (\d)
MatchOrdinal(s, p, multiline, cls) ==
    LET q == RunEnd(s, p + 1, cls)
    IN  IF /\ AtLineStart(s, p, multiline)
           /\ HasLiteral(s, p, << "di" >>)
           /\ q > p + 1
           /\ q < Len(s)
           /\ At(s, q) \in { "zhang", "juan" }
        THEN [ ok |-> TRUE, start |-> p, end |-> q + 1,
               groups |-> << Slice(s, p + 1, q) >> ]
        ELSE NoMatch

\* ^word\s+(\d+) : patterns 3 (Chapter) and 4 (chapter)
MatchWord(s, p, multiline, word) ==
    LET a == p + Len(word)
        b == RunEnd(s, a, Whitespace)
        c == RunEnd(s, b, Digits)
    IN  IF /\ AtLineStart(s, p, multiline)
           /\ HasLiteral(s, p, word)
           /\ b > a
           /\ c > b
        THEN [ ok |-> TRUE, start |-> p, end |-> c,
               groups |-> << Slice(s, b, c) >> ]
        ELSE NoMatch

\* ^di[0-9 and Chinese digits]+zhang.*$ : pattern 5, no capturing group
MatchLoose(s, p, multiline) ==
    LET q == RunEnd(s, p + 1, Digits \cup ChineseDigits)
        e == RunEnd(s, q + 1, { c \in { s[k] : k \in 1 .. Len(s) } : c # "\n" })
    IN  IF /\ AtLineStart(s, p, multiline)
           /\ HasLiteral(s, p, << "di" >>)
           /\ q > p + 1
           /\ q < Len(s)
           /\ At(s, q) = "zhang"
           /\ AtLineEnd(s, e, multiline)
        THEN [ ok |-> TRUE, start |-> p, end |-> e, groups |-> << >> ]
        ELSE NoMatch

\* ^\s*\d+\.\s+ (dot = TRUE, pattern 6) and ^\s*\d+\s+ (pattern 7)
MatchNumbered(s, p, multiline, dot) ==
    LET a == RunEnd(s, p, Whitespace)
        b == RunEnd(s, a, Digits)
        c == IF dot THEN b + 1 ELSE b
        d == RunEnd(s, c, Whitespace)
    IN  IF /\ AtLineStart(s, p, multiline)
           /\ b > a
           /\ dot => HasLiteral(s, b, << "." >>)
           /\ d > c
        THEN [ ok |-> TRUE, start |-> p, end |-> d, groups |-> << >> ]
        ELSE NoMatch

\* ^di\d+zhang : the help text's custom pattern, no capturing group
MatchHelp(s, p, multiline) ==
    LET q == RunEnd(s, p + 1, Digits)
    IN  IF /\ AtLineStart(s, p, multiline)
           /\ HasLiteral(s, p, << "di" >>)
           /\ q > p + 1
           /\ HasLiteral(s, q, << "zhang" >>)
        THEN [ ok |-> TRUE, start |-> p, end |-> q + 1, groups |-> << >> ]
        ELSE NoMatch

\* the match of pattern pat that starts at offset p of s, if there is one
MatchAt(pat, s, p, multiline) ==
    CASE pat = 1 -> MatchOrdinal(s, p, multiline, ChineseDigits)
      [] pat = 2 -> MatchOrdinal(s, p, multiline, Digits)
      [] pat = 3 -> MatchWord(s, p, multiline,
                              << "C", "h", "a", "p", "t", "e", "r" >>)
      [] pat = 4 -> MatchWord(s, p, multiline,
                              << "c", "h", "a", "p", "t", "e", "r" >>)
      [] pat = 5 -> MatchLoose(s, p, multiline)
      [] pat = 6 -> MatchNumbered(s, p, multiline, TRUE)
      [] pat = 7 -> MatchNumbered(s, p, multiline, FALSE)
      [] pat = 8 -> MatchHelp(s, p, multiline)

\* re.match(pattern, s): a match at offset 0, without re.MULTILINE
re_match(pat, s) == MatchAt(pat, s, 0, FALSE).ok

\* compiled.finditer(s) from offset p on, the pattern compiled with
\* re.MULTILINE: leftmost matches, each search resuming at the end of the
\* previous match (no pattern here matches the empty string)
RECURSIVE FindIterFrom(_, _, _)
FindIterFrom(pat, s, p) ==
    IF p > Len(s)
    THEN << >>
    ELSE LET m == MatchAt(pat, s, p, TRUE)
         IN  IF m.ok
             THEN << m >> \o FindIterFrom(pat, s, m.end)
             ELSE FindIterFrom(pat, s, p + 1)

finditer(pat, s) == FindIterFrom(pat, s, 0)

-----------------------------------------------------------------------------
(* String helpers of the Python library used by the source *)

\* str.strip()
strip(s) ==
    LET keep == { k \in 1 .. Len(s) : s[k] \notin Whitespace }
    IN  IF keep = { }
        THEN << >>
        ELSE SubSeq(s, CHOOSE a \in keep : \A k \in keep : a <= k,
                       CHOOSE b \in keep : \A k \in keep : b >= k)

\* the positions of the line breaks among s[lo..hi], in order (by halves,
\* to keep the evaluation shallow on long texts)
RECURSIVE BreaksIn(_, _, _)
BreaksIn(s, lo, hi) ==
    IF lo > hi
    THEN << >>
    ELSE IF lo = hi
         THEN IF s[lo] = "\n" THEN << lo >> ELSE << >>
         ELSE LET mid == (lo + hi) \div 2
              IN  BreaksIn(s, lo, mid) \o BreaksIn(s, mid + 1, hi)

\* str.split('\n'): the pieces between line breaks, one more than there are
\* line breaks
split_lines(s) ==
    LET breaks == BreaksIn(s, 1, Len(s))
        n == Len(breaks)
        first(j) == IF j = 1 THEN 1 ELSE breaks[j - 1] + 1
        last(j) == IF j = n + 1 THEN Len(s) ELSE breaks[j] - 1
    IN  [ j \in 1 .. (n + 1) |-> SubSeq(s, first(j), last(j)) ]

\* str(n) for n >= 0
RECURSIVE str(_)
str(n) ==
    LET d == << "0", "1", "2", "3", "4", "5", "6", "7", "8", "9" >>[(n % 10) + 1]
    IN  IF n < 10 THEN << d >> ELSE Append(str(n \div 10), d)

\* the width of str.zfill in the filename
FillWidth == 4

\* str.zfill(width): zeros on the left, after a leading sign
zfill(s, width) ==
    IF Len(s) >= width
    THEN s
    ELSE LET zeros == [ k \in 1 .. (width - Len(s)) |-> "0" ]
         IN  IF s # << >> /\ s[1] \in { "+", "-" }
             THEN << s[1] >> \o zeros \o Tail(s)
             ELSE zeros \o s

\* content.rfind('\n', 0, start): the offset of the last line break before
\* offset start, or -1
rfind_newline(s, start) ==
    LET at == { k \in 0 .. (start - 1) : At(s, k) = "\n" }
    IN  IF at = { } THEN -1 ELSE CHOOSE a \in at : \A k \in at : a >= k

-----------------------------------------------------------------------------
(* parse_chinese_number as an operation *)

\* the characters numerals are drawn from: every key of the dict, the two
\* group separators, and one character the loop ignores
NumChars == ChineseDigits \cup { "wan", "yii", "x" }

RECURSIVE SeqsUpTo(_, _)
SeqsUpTo(S, n) ==
    IF n = 0
    THEN { << >> }
    ELSE LET shorter == SeqsUpTo(S, n - 1)
         IN  shorter \cup { Append(s, c) : s \in shorter, c \in S }

\* the factor the loop multiplies temp by at this character
Factor(char) ==
    CASE char = "shi" -> 10 [] char = "bai" -> 100 [] char = "qian" -> 1000
      [] char = "wan" -> 10000 [] char = "yii" -> 100000000 [] OTHER -> 1

\* no intermediate value of the loop on t[k..] exceeds NumLimit
RECURSIVE Fits(_, _, _)
Fits(st, t, k) ==
    IF k > Len(t)
    THEN st.result + st.temp <= NumLimit
    ELSE /\ st.temp <= (NumLimit - 10 - st.result) \div Factor(t[k])
         /\ Fits(ParseStep(st, t[k]), t, k + 1)

NumInputs ==
    { t \in SeqsUpTo(NumChars, MaxNumLen) :
        Fits([ result |-> 0, temp |-> 0 ], t, 1) }

InitNum ==
    /\ pc = "num_call"
    /\ text \in NumInputs
    /\ result = None
    /\ content = << >> /\ custom_pattern = 0 /\ chapter_pattern = 0
    /\ pattern_desc = << >> /\ chapter_matches = << >> /\ i = 0
    /\ chapters = << >> /\ safe_title = << >>
    /\ files = << >> /\ created_files = << >>
    /\ decodes = << >> /\ enc_i = 0

ParseChineseNumber ==
    /\ pc = "num_call"
    /\ result' = parse_chinese_number(text)
    /\ pc' = "num_done"
    /\ UNCHANGED << splitVars, numVars, encVars >>

NextNum == ParseChineseNumber

SpecNum == InitNum /\ [][NextNum]_vars

-----------------------------------------------------------------------------
(* detect_chapter_pattern *)

\* the number of leading lines detect_chapter_pattern scans
ScanLines == 100

\* content.split('\n')[:100]
scanned_lines(c) ==
    LET all == split_lines(c)
    IN  SubSeq(all, 1, Min(Len(all), ScanLines))

\* the inner loop: some scanned line, stripped, matches the pattern at its start
AnyLineMatches(pat, lines) ==
    \E k \in 1 .. Len(lines) : re_match(pat, strip(lines[k]))

\* the outer loop from pattern pat on: the first pattern some line matches
RECURSIVE DetectFrom(_, _)
DetectFrom(pat, lines) ==
    IF pat \notin DEFAULT_PATTERNS
    THEN NoPattern
    ELSE IF AnyLineMatches(pat, lines)
         THEN pat
         ELSE DetectFrom(pat + 1, lines)

\* a wrong loop nesting: the patterns are tried line by line, so the first
\* line that matches anything decides
detect_chapter_pattern_by_line(c) ==
    LET lines == scanned_lines(c)
        hits == { k \in 1 .. Len(lines) :
                    \E pat \in DEFAULT_PATTERNS : re_match(pat, strip(lines[k])) }
    IN  IF hits = { }
        THEN NoPattern
        ELSE LET k == CHOOSE a \in hits : \A b \in hits : a <= b
             IN  DetectFrom(1, << lines[k] >>)

\* returns the pattern (compiled with re.MULTILINE), or NoPattern for (None, '')
detect_chapter_pattern(c) == DetectFrom(1, scanned_lines(c))

-----------------------------------------------------------------------------
(* split_chapters, from the choice of the pattern (line 131) to the return. *)
(* The document text is the content read at lines 119-120.                 *)

ChapterPrefix == << "di" >>
ChapterSuffix == << "zhang", ".", "m", "d" >>

\* line 148: start = match.start()
SegmentStart(matches, k) == matches[k].start

\* a wrong end: the segment stops where the next heading stops
SegmentEndAfterHeading(matches, k, c) ==
    IF k + 1 <= Len(matches) THEN matches[k + 1].end ELSE Len(c)

\* lines 158-162: the next match's start, or the end of the text
SegmentEnd(matches, k, c) ==
    IF k + 1 <= Len(matches) THEN matches[k + 1].start ELSE Len(c)

\* a wrong token: the numeral is normalized before it is used
ChapterNumNormalized(m, count) ==
    IF m.groups # << >>
    THEN LET n == parse_chinese_number(m.groups[1])
         IN  IF n # None THEN str(n[1]) ELSE m.groups[1]
    ELSE str(count + 1)

\* line 150: group 1 if the pattern has groups, else the running count
ChapterNum(m, count) ==
    IF m.groups # << >> THEN m.groups[1] ELSE str(count + 1)

\* lines 149-156: the text between the start of the match's line and the
\* match, stripped, or the stripped matched text if that is empty
ChapterTitle(m, c) ==
    LET start == m.start
        chapter_title == strip(Slice(c, m.start, m.end))
        line_start == IF \E k \in 0 .. (start - 1) : At(c, k) = "\n"
                      THEN rfind_newline(c, start) + 1
                      ELSE 0
        full_title_line == strip(Slice(c, line_start, start))
    IN  IF full_title_line = << >> THEN chapter_title ELSE full_title_line

\* the longest safe_title kept
TitleLimit == 50

\* the characters re.sub replaces in a title
UnsafeChars == { "<", ">", ":", "\"", "/", "\\", "|", "?", "*" }

\* lines 164-174: the title made safe for a filename; a title that starts
\* with di but not with di and a digit is rebuilt from the chapter number
SafeTitle(full_title_line, chapter_num) ==
    LET replaced == [ k \in 1 .. Len(full_title_line) |->
                        IF full_title_line[k] \in UnsafeChars
                        THEN "_"
                        ELSE full_title_line[k] ]
        safe == Slice(strip(replaced), 0, TitleLimit)
        num == parse_chinese_number(chapter_num)
    IN  IF /\ HasLiteral(full_title_line, 0, << "di" >>)
           /\ ~(HasLiteral(safe, 0, << "di" >>) /\ RunEnd(safe, 1, Digits) > 1)
        THEN IF num # None
             THEN << "di" >> \o str(num[1]) \o << "zhang" >>
             ELSE << "di" >> \o chapter_num \o << "zhang" >>
        ELSE safe

\* line 180
Filename(chapter_num) ==
    ChapterPrefix \o zfill(chapter_num, FillWidth) \o ChapterSuffix

\* the lines a document is made of
DocLines ==
    { << >>,
      << "x" >>,
      << "di", "yi", "zhang" >>,
      << "di", "1", "zhang" >>,
      << "di", "1", "2", "3", "4", "5", "juan" >>,
      << " ", "di", "1", "zhang" >>,
      << "C", "h", "a", "p", "t", "e", "r", " ", "1", " ", "x" >>,
      << "c", "h", "a", "p", "t", "e", "r", " ", "2" >>,
      << "di", "1", "yi", "zhang", "x" >>,
      << "1", ".", " ", "x" >>,
      << "2", " ", "x" >> }

\* '\n'.join(lines)
RECURSIVE JoinLines(_)
JoinLines(lines) ==
    IF lines = << >>
    THEN << >>
    ELSE IF Len(lines) = 1
         THEN lines[1]
         ELSE lines[1] \o << "\n" >> \o JoinLines(Tail(lines))

Documents == { JoinLines(ls) : ls \in SeqsUpTo(DocLines, MaxLines) }

\* the custom_pattern argument: absent, one of the built-in patterns given
\* explicitly, or the help text's example
CustomPatterns == { NoPattern } \cup DEFAULT_PATTERNS \cup { HelpPattern }

Init ==
    /\ pc = "choose_pattern"
    /\ content \in Documents
    /\ custom_pattern \in CustomPatterns
    /\ chapter_pattern = NoPattern
    /\ pattern_desc = << >>
    /\ chapter_matches = << >>
    /\ i = 0
    /\ chapters = << >>
    /\ safe_title = << >>
    /\ files = << >>
    /\ created_files = << >>
    /\ result = None
    /\ text = << >> /\ decodes = << >> /\ enc_i = 0

\* lines 132-135
UseCustomPattern ==
    /\ pc = "choose_pattern"
    /\ custom_pattern # NoPattern
    /\ chapter_pattern' = custom_pattern
    /\ pattern_desc' = << "custom", custom_pattern >>
    /\ pc' = "find"
    /\ UNCHANGED << content, custom_pattern, chapter_matches, i, chapters,
                    safe_title, files, created_files, result, numVars,
                    encVars >>

\* lines 138-141
DetectPattern ==
    /\ pc = "choose_pattern"
    /\ custom_pattern = NoPattern
    /\ LET detected == detect_chapter_pattern(content)
       IN  /\ chapter_pattern' = detected
           /\ IF detected = NoPattern
              THEN /\ pattern_desc' = << >>
                   /\ result' = << "ValueError" >>
                   /\ pc' = "raised"
              ELSE /\ pattern_desc' = << detected >>
                   /\ result' = result
                   /\ pc' = "find"
    /\ UNCHANGED << content, custom_pattern, chapter_matches, i, chapters,
                    safe_title, files, created_files, numVars, encVars >>

\* lines 144-145
FindMatches ==
    /\ pc = "find"
    /\ chapter_matches' = finditer(chapter_pattern, content)
    /\ chapters' = << >>
    /\ i' = 0
    /\ pc' = "build"
    /\ UNCHANGED << content, custom_pattern, chapter_pattern, pattern_desc,
                    safe_title, files, created_files, result, numVars,
                    encVars >>

\* lines 147-182: one iteration of the loop over the matches
BuildChapter ==
    /\ pc = "build"
    /\ i < Len(chapter_matches)
    /\ LET match == chapter_matches[i + 1]
           chapter_num == ChapterNum(match, Len(chapters))
           full_title_line == ChapterTitle(match, content)
       IN  /\ safe_title' = SafeTitle(full_title_line, chapter_num)
           /\ chapters' = Append(chapters,
                [ start |-> SegmentStart(chapter_matches, i + 1),
                  end |-> SegmentEnd(chapter_matches, i + 1, content),
                  title |-> full_title_line,
                  filename |-> Filename(chapter_num),
                  chapter_num |-> chapter_num ])
    /\ i' = i + 1
    /\ UNCHANGED << pc, content, custom_pattern, chapter_pattern, pattern_desc,
                    chapter_matches, files, created_files, result,
                    numVars, encVars >>

\* a wrong last_end: the end of the last heading instead of len(content)
EpilogueAfterHeading ==
    /\ pc = "build"
    /\ i = Len(chapter_matches)
    /\ LET last_end == IF chapter_matches = << >>
                       THEN 0
                       ELSE chapter_matches[Len(chapter_matches)].end
       IN  IF /\ last_end < Len(content)
              /\ strip(Slice(content, last_end, Len(content))) # << >>
           THEN chapters' = Append(chapters,
                    [ start |-> last_end,
                      end |-> Len(content),
                      title |-> << "epilogue" >>,
                      filename |-> Filename(str(Len(chapters) + 1)),
                      chapter_num |-> str(Len(chapters) + 1) ])
           ELSE chapters' = chapters
    /\ i' = 0
    /\ pc' = "write"
    /\ UNCHANGED << content, custom_pattern, chapter_pattern, pattern_desc,
                    chapter_matches, safe_title, files, created_files, result,
                    numVars, encVars >>

\* lines 184-196, when the loop over the matches is exhausted
Epilogue ==
    /\ pc = "build"
    /\ i = Len(chapter_matches)
    /\ LET last_end == Len(content)
       IN  IF /\ last_end < Len(content)
              /\ strip(Slice(content, last_end, Len(content))) # << >>
           THEN chapters' = Append(chapters,
                    [ start |-> last_end,
                      end |-> Len(content),
                      title |-> << "epilogue" >>,
                      filename |-> Filename(str(Len(chapters) + 1)),
                      chapter_num |-> str(Len(chapters) + 1) ])
           ELSE chapters' = chapters
    /\ i' = 0
    /\ pc' = "write"
    /\ UNCHANGED << content, custom_pattern, chapter_pattern, pattern_desc,
                    chapter_matches, safe_title, files, created_files, result,
                    numVars, encVars >>

\* open(path, 'w') and f.write(data): the file is created or replaced.
\* files is the directory, a sequence of [name, data] entries, one per name.
WriteFile(dir, name, data) ==
    IF \E k \in 1 .. Len(dir) : dir[k].name = name
    THEN [ k \in 1 .. Len(dir) |->
             IF dir[k].name = name THEN [ name |-> name, data |-> data ]
             ELSE dir[k] ]
    ELSE Append(dir, [ name |-> name, data |-> data ])

\* lines 200-209: one iteration of the loop over the chapters
WriteChapter ==
    /\ pc = "write"
    /\ i < Len(chapters)
    /\ LET chapter == chapters[i + 1]
           chapter_content == strip(Slice(content, chapter.start, chapter.end))
       IN  /\ files' = WriteFile(files, chapter.filename, chapter_content)
           /\ created_files' = Append(created_files, chapter.filename)
    /\ i' = i + 1
    /\ UNCHANGED << pc, content, custom_pattern, chapter_pattern, pattern_desc,
                    chapter_matches, chapters, safe_title, result, numVars,
                    encVars >>

\* lines 211-219
Return ==
    /\ pc = "write"
    /\ i = Len(chapters)
    /\ result' = [ success |-> TRUE,
                   pattern_used |-> pattern_desc,
                   chapters_found |-> Len(chapters),
                   files_created |-> created_files ]
    /\ pc' = "returned"
    /\ UNCHANGED << splitVars, numVars, encVars >>

Next ==
    \/ UseCustomPattern
    \/ DetectPattern
    \/ FindMatches
    \/ BuildChapter
    \/ Epilogue
    \/ WriteChapter
    \/ Return

Spec == Init /\ [][Next]_vars

-----------------------------------------------------------------------------
(* detect_chapter_pattern as an operation of its own, on documents long    *)
(* enough to have lines beyond the scanned ones                            *)

\* the lines a document given to detect_chapter_pattern is made of
DetLines ==
    { << >>,
      << "x" >>,
      << "C", "h", "a", "p", "t", "e", "r", " ", "1" >>,
      << "c", "h", "a", "p", "t", "e", "r", " ", "2" >>,
      << " ", "di", "1", "zhang", " " >>,
      << "di", "yi", "zhang" >>,
      << "di", "1", "yi", "zhang", "x" >>,
      << "1", ".", " ", "x" >>,
      << "2", " ", "x" >> }

\* the numbers of blank lines put before them
DetPads == { 0, ScanLines - 2, ScanLines - 1, ScanLines }

DetDocuments ==
    { [ k \in 1 .. pad |-> "\n" ] \o JoinLines(ls) :
        pad \in DetPads, ls \in SeqsUpTo(DetLines, MaxDetLines) }

InitDet ==
    /\ pc = "detect_call"
    /\ content \in DetDocuments
    /\ chapter_pattern = NoPattern
    /\ custom_pattern = NoPattern
    /\ pattern_desc = << >>
    /\ chapter_matches = << >> /\ i = 0 /\ chapters = << >>
    /\ safe_title = << >> /\ files = << >> /\ created_files = << >>
    /\ result = None
    /\ text = << >> /\ decodes = << >> /\ enc_i = 0

\* lines 77-86
DetectChapterPattern ==
    /\ pc = "detect_call"
    /\ chapter_pattern' = detect_chapter_pattern(content)
    /\ pc' = "detect_done"
    /\ UNCHANGED << content, custom_pattern, pattern_desc, chapter_matches, i,
                    chapters, safe_title, files, created_files, result,
                    numVars, encVars >>

NextDet == DetectChapterPattern

SpecDet == InitDet /\ [][NextDet]_vars

-----------------------------------------------------------------------------
(* detect_encoding.  The codecs belong to the Python library; a file is    *)
(* given by the set of candidate encodings under which open(...).read()    *)
(* decodes it without error.                                               *)

\* a wrong candidate order: gb18030 is tried before gbk and gb2312
encodings_reordered ==
    << "utf-8", "utf-8-sig", "gb18030", "gbk", "gb2312", "big5", "shift_jis" >>

\* line 64
encodings ==
    << "utf-8", "utf-8-sig", "gbk", "gb2312", "gb18030", "big5", "shift_jis" >>

EncodingNames ==
    { "utf-8", "utf-8-sig", "gbk", "gb2312", "gb18030", "big5", "shift_jis" }

\* utf-8-sig decodes exactly the files utf-8 decodes (it only drops a
\* leading byte order mark)
Files == { d \in SUBSET EncodingNames : ("utf-8" \in d) <=> ("utf-8-sig" \in d) }

InitEnc ==
    /\ pc = "enc_loop"
    /\ decodes \in Files
    /\ enc_i = 1
    /\ result = None
    /\ content = << >> /\ custom_pattern = NoPattern
    /\ chapter_pattern = NoPattern /\ pattern_desc = << >>
    /\ chapter_matches = << >> /\ i = 0 /\ chapters = << >>
    /\ safe_title = << >> /\ files = << >> /\ created_files = << >>
    /\ text = << >>

\* lines 66-72: one iteration of the loop over the candidates
TryEncoding ==
    /\ pc = "enc_loop"
    /\ enc_i <= Len(encodings)
    /\ IF encodings[enc_i] \in decodes
       THEN /\ result' = encodings[enc_i]
            /\ pc' = "enc_done"
            /\ enc_i' = enc_i
       ELSE /\ enc_i' = enc_i + 1
            /\ UNCHANGED << pc, result >>
    /\ UNCHANGED << splitVars, numVars, decodes >>

\* line 74: no candidate decoded the file
FallbackEncoding ==
    /\ pc = "enc_loop"
    /\ enc_i > Len(encodings)
    /\ result' = "utf-8"
    /\ pc' = "enc_done"
    /\ UNCHANGED << splitVars, numVars, encVars >>

NextEnc ==
    \/ TryEncoding
    \/ FallbackEncoding

SpecEnc == InitEnc /\ [][NextEnc]_vars

-----------------------------------------------------------------------------
(* Properties of split_chapters (specification Spec) *)

\* the segments built once the loop over the matches and the epilogue
\* check are done
Built == pc \in { "write", "returned" }

\* the number of segments whose range [start, end) holds offset off
Covering(off) ==
    Cardinality({ k \in 1 .. Len(chapters) :
                    chapters[k].start <= off /\ off < chapters[k].end })

\* the untrimmed slices of segments k.. in order, concatenated
RECURSIVE ConcatSlices(_)
ConcatSlices(k) ==
    IF k > Len(chapters)
    THEN << >>
    ELSE Slice(content, chapters[k].start, chapters[k].end)
           \o ConcatSlices(k + 1)

\* the offsets at which the pattern in use matches
HeadingOffsets ==
    { p \in 0 .. Len(content) : MatchAt(chapter_pattern, content, p, TRUE).ok }

\* C1 as stated: when the pattern matches somewhere, every offset of the
\* document lies in exactly one segment and the slices concatenated are the
\* whole document
SegmentsPartitionDocument ==
    (Built /\ chapter_matches # << >>) =>
        /\ \A off \in 0 .. (Len(content) - 1) : Covering(off) = 1
        /\ ConcatSlices(1) = content

\* C1 amended: when the pattern matches somewhere, every offset from the
\* first heading on lies in exactly one segment, every offset before the
\* first heading lies in none, and the slices concatenated are the document
\* from the first heading on
SegmentsPartitionFromFirstHeading ==
    (Built /\ chapter_matches # << >>) =>
        LET first == CHOOSE p \in HeadingOffsets :
                        \A q \in HeadingOffsets : p <= q
        IN  /\ \A off \in 0 .. (Len(content) - 1) :
                  Covering(off) = IF off >= first THEN 1 ELSE 0
            /\ ConcatSlices(1) = Slice(content, first, Len(content))

\* C1 witness: a run with two segments and text before the first heading
WitnessPrefaceAndTwoSegments ==
    /\ pc = "returned"
    /\ Len(chapters) = 2
    /\ chapters[1].start > 0
    /\ chapters[2].end = Len(content)

FilenamesCollisionFree ==
    pc = "returned" =>
        /\ \A j, k \in 1 .. Len(chapters) :
              j # k => chapters[j].filename # chapters[k].filename
        /\ Len(files) = Len(chapters)

\* the patterns with a capturing group
PatternsWithGroup == { 1, 2, 3, 4 }

\* s with zeros put before it up to the width
PadLeft(s, width) ==
    IF Len(s) >= width THEN s ELSE [ k \in 1 .. (width - Len(s)) |-> "0" ] \o s

LineAround(c, p) ==
    LET before == { k \in 0 .. (p - 1) : At(c, k) = "\n" }
        after == { k \in p .. (Len(c) - 1) : At(c, k) = "\n" }
        from == IF before = { }
                THEN 0
                ELSE (CHOOSE a \in before : \A k \in before : a >= k) + 1
        to == IF after = { }
              THEN Len(c)
              ELSE CHOOSE a \in after : \A k \in after : a <= k
    IN  Slice(c, from, to)

\* C9 as stated: every segment's title is the whole source line that holds
\* the start of the match, stripped, and the bare matched text only when
\* that line is empty
TitleIsFullLine ==
    Built =>
        \A k \in 1 .. Len(chapters) :
            LET m == chapter_matches[k]
                line == strip(LineAround(content, m.start))
            IN  chapters[k].title =
                  IF line = << >> THEN strip(Slice(content, m.start, m.end))
                  ELSE line

\* C10 as stated: a run without a custom pattern that returns has found at
\* least one chapter
DetectedPatternFindsChapter ==
    (pc = "returned" /\ custom_pattern = NoPattern) =>
        /\ result.chapters_found >= 1
        /\ Len(chapter_matches) >= 1

-----------------------------------------------------------------------------
(* Properties of detect_chapter_pattern (specification SpecDet) *)

\* some line among the first ScanLines of the document, stripped, matches
\* pattern pat at its start
ScannedLineMatches(pat) ==
    LET lines == split_lines(content)
    IN  \E k \in 1 .. Len(lines) :
            k <= 100 /\ re_match(pat, strip(lines[k]))

\* C5: the pattern returned is the first of DEFAULT_PATTERNS that matches
\* some stripped line among the first 100, whatever the order of the lines;
\* None is returned exactly when no pattern matches any of those lines; a
\* document whose first line is "Chapter 1" never gets the lowercase, loose
\* or numbered patterns
DetectReturnsFirstMatchingPattern ==
    pc = "detect_done" =>
        /\ chapter_pattern = NoPattern <=>
              \A pat \in 1 .. 7 : ~ScannedLineMatches(pat)
        /\ chapter_pattern # NoPattern =>
              /\ chapter_pattern \in 1 .. 7
              /\ ScannedLineMatches(chapter_pattern)
              /\ \A pat \in 1 .. (chapter_pattern - 1) : ~ScannedLineMatches(pat)
        /\ split_lines(content)[1] = << "C", "h", "a", "p", "t", "e", "r", " ", "1" >>
              => /\ chapter_pattern \in { 1, 2, 3 }
                 /\ chapter_pattern # 3 =>
                       ScannedLineMatches(1) \/ ScannedLineMatches(2)

\* C5 witness: the hundredth line has a lowercase heading, a line after it
\* has an Arabic-numeral heading of higher priority, and the lowercase
\* pattern is returned
WitnessLineBeyondScanIgnored ==
    /\ pc = "detect_done"
    /\ chapter_pattern = 4
    /\ LET lines == split_lines(content)
       IN  /\ Len(lines) > 100
           /\ re_match(4, strip(lines[100]))
           /\ re_match(2, strip(lines[101]))

-----------------------------------------------------------------------------
(* Properties of parse_chinese_number (specification SpecNum) *)

NonZeroDigits == { "yi", "er", "san", "si", "wu", "liu", "qi", "ba", "jiu" }

\* the conventional value of a numeral of the forms X, ten, X-ten, ten-X
ConventionalValue(t) ==
    IF Len(t) = 1
    THEN chinese_to_arabic[t[1]]
    ELSE IF t[1] = "shi"
         THEN 10 + chinese_to_arabic[t[2]]
         ELSE chinese_to_arabic[t[1]] * 10

ConventionalForm(t) ==
    \/ Len(t) = 1 /\ t[1] \in NonZeroDigits \cup { "shi" }
    \/ Len(t) = 2 /\ t[1] = "shi" /\ t[2] \in NonZeroDigits
    \/ Len(t) = 2 /\ t[1] \in NonZeroDigits /\ t[2] = "shi"

\* C6 as stated: a numeral of one of these forms is read as its
\* conventional value
TwoCharNumeralsConventional ==
    (pc = "num_done" /\ ConventionalForm(text)) =>
        result = Some(ConventionalValue(text))

\* C7: the result is None or a strictly positive integer; it is None for
\* the empty string, for "ling", and whenever the accumulated total is not
\* positive
ParseReturnsNoneOrPositive ==
    pc = "num_done" =>
        /\ result = None \/ (Len(result) = 1 /\ result[1] > 0)
        /\ text = << >> => result = None
        /\ text = << "ling" >> => result = None
        /\ (\A k \in 1 .. Len(text) : text[k] \notin NonZeroDigits \cup { "shi" })
              => result = None
        /\ LET st == ParseLoop([ result |-> 0, temp |-> 0 ], text, 1)
           IN  st.result + st.temp <= 0 => result = None

\* C7 witness: the numeral zero was parsed and gave None
WitnessZeroIsNone ==
    /\ pc = "num_done"
    /\ text = << "ling" >>
    /\ result = None

-----------------------------------------------------------------------------
(* Properties of detect_encoding (specification SpecEnc) *)

\* the candidate order the result is measured against
CandidateOrder ==
    << "utf-8", "utf-8-sig", "gbk", "gb2312", "gb18030", "big5", "shift_jis" >>

\* C8: the encoding returned is the first candidate, in the fixed order,
\* that decodes the file, and utf-8 when none does; a file that decodes
\* under exactly one candidate, a legacy one, gets that candidate
EncodingIsFirstDecodable ==
    pc = "enc_done" =>
        LET ok == { k \in 1 .. 7 : CandidateOrder[k] \in decodes }
        IN  /\ IF ok = { }
               THEN result = "utf-8"
               ELSE result = CandidateOrder[CHOOSE a \in ok : \A k \in ok : a <= k]
            /\ \A e \in { "gbk", "gb2312", "gb18030", "big5", "shift_jis" } :
                  decodes = { e } => result = e

\* C8 witness: a file only big5 decodes was detected as big5, after the
\* five candidates before it failed
WitnessOnlyLegacyDecodes ==
    /\ pc = "enc_done"
    /\ decodes = { "big5" }
    /\ enc_i = 6
    /\ result = "big5"

====
